---- MODULE Spec2Model ----
(***************************************************************************)
(* QuickText backend (Express + Supabase): the message relay of            *)
(* src/server.js over the public.messages table of schema.sql.             *)
(*                                                                         *)
(* Every HTTP request is handled by a slot; a handler runs from one await  *)
(* to the next in a single step, and requests in different slots           *)
(* interleave at their awaits.  A store call made through the Supabase     *)
(* client is atomic at the store and ends in one of StoreOutcomes.         *)
(* Times are seconds since the process started.                            *)
(***************************************************************************)
EXTENDS Integers, FiniteSets, Sequences, TLC

\* ---- bounds of the model -------------------------------------------------
NSlots == 2            \* requests in flight at once
NCodes == 2            \* size of the code space nanoid() draws from
NIps == 2              \* distinct client addresses
MaxId == 2             \* identity values the store hands out
MaxMinutes == 1        \* limiter windows the clock passes inside one week
MaxWeeks == 1          \* expiry periods the clock passes
MaxHits == 6           \* requests counted for one address in one window
FewHits == 2           \* the same, for an address that stays within the limit

\* ---- constants of the program -------------------------------------------
MaxAttempts == 5
MaxMessageLen == 10000
TtlSec == 604800
WindowSec == 60
RateMax == 5

Slots == 1..NSlots
Codes == 1..NCodes
Ips == 1..NIps

\* A falsy request field (absent, null or the empty string).
Missing == ""
NoCode == 0
NoId == 0

\* Text of a message is kept by its length, which is all the handler reads.
SendInputs ==
  { [topic |-> "t", author |-> "a", message |-> 5],
    [topic |-> "u", author |-> "b", message |-> MaxMessageLen],
    [topic |-> Missing, author |-> "a", message |-> 5],
    [topic |-> "t", author |-> Missing, message |-> 5],
    [topic |-> "t", author |-> "a", message |-> 0],
    [topic |-> "t", author |-> "a", message |-> MaxMessageLen + 1] }

StoreOutcomes == {"ok", "error", "throw", "hang"}

AdminKeys == {"none", "secret", "wrong"}

VARIABLES
  store,       \* rows of public.messages
  nextId,      \* next value of the identity column
  now,         \* the clock
  hits,        \* receiveLimiter: requests counted per address in its window
  resetTime,   \* receiveLimiter: end of the window per address
  ADMIN_KEY,   \* process.env.ADMIN_KEY
  req,         \* the request each slot is handling
  admitted     \* per address: requests of its window passed on to the handler

vars == <<store, nextId, now, hits, resetTime, ADMIN_KEY, req, admitted>>

NoData == [kind |-> "none"]
NoResp == [status |-> 0, error |-> "", data |-> NoData]

Json(status, data) == [status |-> status, error |-> "", data |-> data]
Err(status, text) == [status |-> status, error |-> text, data |-> NoData]

Idle ==
  [pc |-> "idle", kind |-> "none", ip |-> 0,
   topic |-> "", author |-> "", message |-> 0,
   code |-> NoCode, attempts |-> 0, checked |-> FALSE, expires_at |-> 0,
   nowIso |-> 0, key |-> "none", id |-> NoId,
   reads |-> 0, writes |-> 0, resp |-> NoResp]

\* A request whose store call never returns stays awaiting it; one whose store
\* call throws outside a try block ends without a response from its handler:
\* the exception leaves the async handler as a rejected promise.
Hung(r) == [Idle EXCEPT !.pc = "hung", !.kind = r.kind]
Failed(r) == [Idle EXCEPT !.pc = "failed", !.kind = r.kind]

\* ---- the store -----------------------------------------------------------
RowsWithCode(st, code) == {r \in st : r.code = code}

\* The table without the unique constraint on code.
InsertUnconstrained(st, code) == TRUE

\* insert: the unique constraint on code rejects a second row with the code.
InsertAllowed(st, code) == RowsWithCode(st, code) = {}

\* An insert that puts the author in the topic column and the topic in the
\* author column.
NewRowSwapped(id, r, createdAt) ==
  [id |-> id, topic |-> r.author, author |-> r.topic, code |-> r.code,
   message |-> r.message, created_at |-> createdAt, expires_at |-> r.expires_at]

\* The row an insert adds.  created_at and expires_at are the names the
\* server uses for the table's createdAt and expiresAt columns; created_at is
\* the column default now().
NewRow(id, r, createdAt) ==
  [id |-> id, topic |-> r.topic, author |-> r.author, code |-> r.code,
   message |-> r.message, created_at |-> createdAt, expires_at |-> r.expires_at]

\* The select with gte in place of gt.
LiveRowsInclusive(st, code, nowIso) ==
  {r \in st : r.code = code /\ r.expires_at >= nowIso}

\* The select without the expiry filter.
LiveRowsAnyAge(st, code, nowIso) == RowsWithCode(st, code)

\* select ... eq('code', code).gt('expires_at', nowIso)
LiveRows(st, code, nowIso) ==
  {r \in st : r.code = code /\ r.expires_at > nowIso}

\* ---- POST /api/send ------------------------------------------------------
\* Validation that forgets the length test.
ValidNoLength(in) ==
  in.topic # Missing /\ in.author # Missing /\ in.message # 0

\* Validation whose length test turns away the limit itself.
ValidBelowLimit(in) ==
  /\ in.topic # Missing /\ in.author # Missing /\ in.message # 0
  /\ ~(in.message >= MaxMessageLen)

Valid(in) ==
  /\ in.topic # Missing /\ in.author # Missing /\ in.message # 0
  /\ ~(in.message > MaxMessageLen)

ValidationError(in) ==
  IF in.topic = Missing \/ in.author = Missing \/ in.message = 0
    THEN Err(400, "Missing topic/author/message")
    ELSE Err(400, "Message too long (max 10k chars)")

SendsInFlight == Cardinality({s \in Slots : req[s].kind = "send" /\ req[s].pc # "done"})

SendStart(s, in, code) ==
  /\ req[s].pc = "idle"
  /\ nextId + SendsInFlight <= MaxId
  /\ req' = [req EXCEPT ![s] =
       IF ~Valid(in)
         THEN [Idle EXCEPT !.pc = "done", !.kind = "send", !.topic = in.topic,
                           !.author = in.author, !.message = in.message,
                           !.resp = ValidationError(in)]
         ELSE [Idle EXCEPT !.pc = "check", !.kind = "send", !.topic = in.topic,
                           !.author = in.author, !.message = in.message,
                           !.code = code]]
  /\ UNCHANGED <<store, nextId, now, hits, resetTime, ADMIN_KEY, admitted>>

\* One turn of the while loop: the collision-check read and what follows it
\* up to the next await.
SendCheck(s, outcome, fresh) ==
  LET r == req[s]
      exists == RowsWithCode(store, r.code) # {}
      read == [r EXCEPT !.reads = @ + 1]
  IN
  /\ r.pc = "check"
  /\ req' = [req EXCEPT ![s] =
       CASE outcome = "hang" -> Hung(r)
         [] outcome = "throw" ->
              [read EXCEPT !.pc = "done", !.resp = Err(500, "Server error")]
         [] outcome = "error" ->
              [read EXCEPT !.pc = "done", !.resp = Err(500, "DB error checking code")]
         [] outcome = "ok" /\ ~exists ->
              [read EXCEPT !.pc = "insert", !.checked = TRUE,
                           !.expires_at = now + TtlSec]
         [] outcome = "ok" /\ exists /\ r.attempts + 1 < MaxAttempts ->
              [read EXCEPT !.code = fresh, !.attempts = @ + 1]
         [] OTHER ->
              [read EXCEPT !.pc = "insert", !.code = fresh, !.attempts = @ + 1,
                           !.expires_at = now + TtlSec]]
  /\ UNCHANGED <<store, nextId, now, hits, resetTime, ADMIN_KEY, admitted>>

\* An insert that stores the row even when it reports an error.
SendInsertUnreported(s, outcome) ==
  LET r == req[s]
      wrote == [r EXCEPT !.writes = @ + 1]
      row == NewRow(nextId, r, now)
  IN
  /\ r.pc = "insert"
  /\ outcome \in {"ok", "error"}
  /\ InsertAllowed(store, r.code)
  /\ store' = store \cup {row}
  /\ nextId' = nextId + 1
  /\ req' = [req EXCEPT ![s] =
       IF outcome = "ok"
         THEN [wrote EXCEPT !.pc = "done", !.id = row.id,
                 !.resp = Json(200, [kind |-> "sent", id |-> row.id,
                            code |-> row.code, expires_at |-> row.expires_at])]
         ELSE [wrote EXCEPT !.pc = "done", !.resp = Err(500, "Failed to save message")]]
  /\ UNCHANGED <<now, hits, resetTime, ADMIN_KEY, admitted>>

SendInsert(s, outcome) ==
  LET r == req[s]
      wrote == [r EXCEPT !.writes = @ + 1]
      row == NewRow(nextId, r, now)
  IN
  /\ r.pc = "insert"
  /\ IF outcome = "ok" /\ InsertAllowed(store, r.code)
       THEN /\ store' = store \cup {row}
            /\ nextId' = nextId + 1
            /\ req' = [req EXCEPT ![s] =
                 [wrote EXCEPT !.pc = "done", !.id = row.id,
                    !.resp = Json(200, [kind |-> "sent", id |-> row.id,
                               code |-> row.code, expires_at |-> row.expires_at])]]
       ELSE /\ UNCHANGED <<store, nextId>>
            /\ req' = [req EXCEPT ![s] =
                 CASE outcome = "hang" -> Hung(r)
                   [] outcome = "throw" ->
                        [wrote EXCEPT !.pc = "done", !.resp = Err(500, "Server error")]
                   [] OTHER ->
                        [wrote EXCEPT !.pc = "done", !.resp = Err(500, "Failed to save message")]]
  /\ UNCHANGED <<now, hits, resetTime, ADMIN_KEY, admitted>>

\* ---- receiveLimiter -----------------------------------------------------
\* The hit count of a request from address ip arriving at time t.
HitCount(ip, t) == IF t >= resetTime[ip] THEN 1 ELSE hits[ip] + 1

WindowEnd(ip, t) == IF t >= resetTime[ip] THEN t + WindowSec ELSE resetTime[ip]

\* A limiter that lets the request numbered max + 1 through.
LimitedLate(n) == n > RateMax + 1

Limited(n) == n > RateMax

RateLimited ==
  Err(429, "You have exceeded the limit of 5 attempts per minute. Please wait before trying again.")

\* ---- POST /api/receive ---------------------------------------------------
NotFound == Err(404, "Invalid or expired code")

ReceiveStart(s, ip, code) ==
  LET n == HitCount(ip, now)
      r == [Idle EXCEPT !.kind = "receive", !.ip = ip, !.code = code]
  IN
  /\ req[s].pc = "idle"
  /\ hits' = [hits EXCEPT ![ip] = n]
  /\ resetTime' = [resetTime EXCEPT ![ip] = WindowEnd(ip, now)]
  /\ admitted' = [admitted EXCEPT ![ip] =
       (IF n = 1 THEN 0 ELSE @) + (IF Limited(n) THEN 0 ELSE 1)]
  /\ req' = [req EXCEPT ![s] =
       CASE Limited(n) -> [r EXCEPT !.pc = "done", !.resp = RateLimited]
         [] code = NoCode -> [r EXCEPT !.pc = "done", !.resp = Err(400, "Missing code")]
         [] OTHER -> [r EXCEPT !.pc = "query", !.nowIso = now]]
  /\ UNCHANGED <<store, nextId, now, ADMIN_KEY>>

\* What the handler answers once the select has ended with outcome.
ReceiveResponse(st, code, nowIso, outcome) ==
  LET rows == LiveRows(st, code, nowIso) IN
  CASE outcome = "throw" -> Err(500, "Server error")
    [] outcome = "error" \/ Cardinality(rows) # 1 -> NotFound
    [] OTHER ->
         LET row == CHOOSE x \in rows : TRUE IN
         Json(200, [kind |-> "message", id |-> row.id, topic |-> row.topic,
                    author |-> row.author, message |-> row.message,
                    created_at |-> row.created_at, expires_at |-> row.expires_at])

\* A lookup that removes the row it returns.
ReceiveQueryOnce(s, outcome) ==
  LET r == req[s] IN
  /\ r.pc = "query"
  /\ req' = [req EXCEPT ![s] =
       IF outcome = "hang"
         THEN Hung(r)
         ELSE [r EXCEPT !.pc = "done", !.reads = @ + 1,
                 !.resp = ReceiveResponse(store, r.code, r.nowIso, outcome)]]
  /\ store' = IF outcome = "ok" THEN store \ LiveRows(store, r.code, r.nowIso) ELSE store
  /\ UNCHANGED <<nextId, now, hits, resetTime, ADMIN_KEY, admitted>>

ReceiveQuery(s, outcome) ==
  LET r == req[s]
      read == [r EXCEPT !.reads = @ + 1]
  IN
  /\ r.pc = "query"
  /\ req' = [req EXCEPT ![s] =
       IF outcome = "hang"
         THEN Hung(r)
         ELSE [read EXCEPT !.pc = "done",
                 !.resp = ReceiveResponse(store, r.code, r.nowIso, outcome)]]
  /\ UNCHANGED <<store, nextId, now, hits, resetTime, ADMIN_KEY, admitted>>

\* ---- admin ---------------------------------------------------------------
\* A guard without the test that a secret is configured.
UnauthorizedUnlessEqual(key) == key # ADMIN_KEY

Unauthorized(key) == ADMIN_KEY = "none" \/ key # ADMIN_KEY

\* A delete whose filter matches no row.
AfterDeleteKept(st, id) == st

\* A delete that blanks the matching row and keeps it.
AfterDeleteBlanked(st, id) ==
  {IF r.id = id THEN [r EXCEPT !.message = 0] ELSE r : r \in st}

\* A delete whose filter is a range of ids.
AfterDeleteUpTo(st, id) == {r \in st : r.id > id}

AfterDelete(st, id) == {r \in st : r.id # id}

AdminDeleteStart(s, key, id) ==
  LET r == [Idle EXCEPT !.kind = "delete", !.key = key, !.id = id] IN
  /\ req[s].pc = "idle"
  /\ req' = [req EXCEPT ![s] =
       IF Unauthorized(key)
         THEN [r EXCEPT !.pc = "done", !.resp = Err(401, "Unauthorized")]
         ELSE [r EXCEPT !.pc = "delete"]]
  /\ UNCHANGED <<store, nextId, now, hits, resetTime, ADMIN_KEY, admitted>>

\* The delete at the store.  The handler has no try/catch: a call that
\* throws leaves the request without a response.  The code of the removed
\* row is kept in the slot for reference.
AdminDelete(s, outcome) ==
  LET r == req[s]
      wrote == [r EXCEPT !.writes = @ + 1]
      gone == {x \in store : x.id = r.id}
  IN
  /\ r.pc = "delete"
  /\ store' = IF outcome = "ok" THEN AfterDelete(store, r.id) ELSE store
  /\ req' = [req EXCEPT ![s] =
       CASE outcome = "hang" -> Hung(r)
         [] outcome = "throw" -> Failed(r)
         [] outcome = "error" -> [wrote EXCEPT !.pc = "done", !.resp = Err(500, "DB error")]
         [] OTHER ->
              [wrote EXCEPT !.pc = "done",
                 !.code = IF gone = {} THEN NoCode ELSE (CHOOSE x \in gone : TRUE).code,
                 !.resp = Json(200, [kind |-> "ok", ok |-> TRUE])]]
  /\ UNCHANGED <<nextId, now, hits, resetTime, ADMIN_KEY, admitted>>

AdminListStart(s, key) ==
  LET r == [Idle EXCEPT !.kind = "list", !.key = key] IN
  /\ req[s].pc = "idle"
  /\ req' = [req EXCEPT ![s] =
       IF Unauthorized(key)
         THEN [r EXCEPT !.pc = "done", !.resp = Err(401, "Unauthorized")]
         ELSE [r EXCEPT !.pc = "list"]]
  /\ UNCHANGED <<store, nextId, now, hits, resetTime, ADMIN_KEY, admitted>>

AdminList(s, outcome) ==
  LET r == req[s]
      read == [r EXCEPT !.reads = @ + 1]
  IN
  /\ r.pc = "list"
  /\ req' = [req EXCEPT ![s] =
       CASE outcome = "hang" -> Hung(r)
         [] outcome = "throw" -> Failed(r)
         [] outcome = "error" -> [read EXCEPT !.pc = "done", !.resp = Err(500, "DB error")]
         [] OTHER ->
              [read EXCEPT !.pc = "done",
                 !.resp = Json(200, [kind |-> "list", rows |-> store])]]
  /\ UNCHANGED <<store, nextId, now, hits, resetTime, ADMIN_KEY, admitted>>

\* ---- the environment -----------------------------------------------------
\* The scheduled job of schema.sql: delete ... where expiresAt < now().
Purged(st, t) == {r \in st : ~(r.expires_at < t)}

Purge ==
  /\ Purged(store, now) # store
  /\ store' = Purged(store, now)
  /\ UNCHANGED <<nextId, now, hits, resetTime, ADMIN_KEY, req, admitted>>

TickMinute ==
  /\ (now % TtlSec) \div WindowSec < MaxMinutes
  /\ now' = now + WindowSec
  /\ UNCHANGED <<store, nextId, hits, resetTime, ADMIN_KEY, req, admitted>>

\* A week passes, most times at most.
TickWeek(most) ==
  /\ now \div TtlSec < most
  /\ now' = now + TtlSec
  /\ UNCHANGED <<store, nextId, hits, resetTime, ADMIN_KEY, req, admitted>>

\* The response has been sent; the slot takes the next request.
Respond(s) ==
  /\ req[s].pc = "done"
  /\ req' = [req EXCEPT ![s] = Idle]
  /\ UNCHANGED <<store, nextId, now, hits, resetTime, ADMIN_KEY, admitted>>

Init ==
  /\ store = {}
  /\ nextId = 1
  /\ now = 0
  /\ hits = [i \in Ips |-> 0]
  /\ resetTime = [i \in Ips |-> 0]
  /\ ADMIN_KEY \in {"none", "secret"}
  /\ req = [s \in Slots |-> Idle]
  /\ admitted = [i \in Ips |-> 0]

\* ---- the requests the environment makes ---------------------------------
\* A new request takes the lowest free slot.
Free(s) == req[s].pc = "idle" /\ \A x \in Slots : x < s => req[x].pc # "idle"

Sends(inputs, outcomes) ==
  \/ \E s \in Slots, in \in inputs, c \in Codes : Free(s) /\ SendStart(s, in, c)
  \/ \E s \in Slots, o \in outcomes, c \in Codes : SendCheck(s, o, c)
  \/ \E s \in Slots, o \in outcomes : SendInsert(s, o)

\* Receives from the addresses ips, each making at most most requests in one
\* window of the limiter.
Receives(ips, most) ==
  \/ \E s \in Slots, ip \in ips, c \in Codes \cup {NoCode} :
       Free(s) /\ HitCount(ip, now) <= most /\ ReceiveStart(s, ip, c)
  \/ \E s \in Slots, o \in StoreOutcomes : ReceiveQuery(s, o)

Deletes(keys, outcomes) ==
  \/ \E s \in Slots, k \in keys, i \in 1..MaxId : Free(s) /\ AdminDeleteStart(s, k, i)
  \/ \E s \in Slots, o \in outcomes : AdminDelete(s, o)

Lists ==
  \/ \E s \in Slots, k \in AdminKeys : Free(s) /\ AdminListStart(s, k)
  \/ \E s \in Slots, o \in StoreOutcomes : AdminList(s, o)

Next ==
  \/ Sends(SendInputs, StoreOutcomes)
  \/ Receives(Ips, MaxHits)
  \/ Deletes(AdminKeys, StoreOutcomes)
  \/ Lists
  \/ Purge
  \/ TickMinute
  \/ TickWeek(MaxWeeks + 1)
  \/ \E s \in Slots : Respond(s)

Spec == Init /\ [][Next]_vars

\* The process started with an admin key in its environment.
InitConfigured == Init /\ ADMIN_KEY = "secret"

\* Issuing and removing messages: sends, admin deletes, the purge, and the
\* clock running past the expiry of the rows.
NextIssue ==
  \/ Sends(SendInputs, StoreOutcomes)
  \/ Deletes({"secret"}, {"ok"})
  \/ Purge
  \/ TickWeek(MaxWeeks + 1)
  \/ \E s \in Slots : Respond(s)

SpecIssue == InitConfigured /\ [][NextIssue]_vars

\* Looking messages up from one address that stays within the limit, the
\* store failing only on lookups, the clock running up to the expiry.
NextLookup ==
  \/ Sends({in \in SendInputs : Valid(in)}, {"ok"})
  \/ Receives({1}, FewHits)
  \/ Deletes({"secret"}, {"ok"})
  \/ TickWeek(MaxWeeks)
  \/ \E s \in Slots : Respond(s)

SpecLookup == InitConfigured /\ [][NextLookup]_vars

\* The limiter alone: receives from every address while the clock passes
\* window ends.
NextLimiter ==
  \/ Receives(Ips, MaxHits)
  \/ TickMinute
  \/ \E s \in Slots : Respond(s)

SpecLimiter == Init /\ [][NextLimiter]_vars

\* The admin routes with any key, with or without a configured secret, the
\* store ending their calls in every way; sends and receives go on beside.
NextAdmin ==
  \/ Sends({in \in SendInputs : Valid(in)}, {"ok"})
  \/ Receives({1}, FewHits)
  \/ Deletes(AdminKeys, StoreOutcomes)
  \/ Lists
  \/ \E s \in Slots : Respond(s)

SpecAdmin == Init /\ [][NextAdmin]_vars

\* Sends while the clock moves between their store calls.
NextStamp ==
  \/ Sends({in \in SendInputs : Valid(in)}, {"ok"})
  \/ TickMinute
  \/ \E s \in Slots : Respond(s)

SpecStamp == InitConfigured /\ [][NextStamp]_vars

\* ==== the claims ==========================================================
Sending(s) == req[s].kind = "send"
Answered(s) == req[s].pc = "done"
Succeeded(s) == Answered(s) /\ req[s].resp.status = 200

\* C1: in every reachable state, whatever the interleaving of sends, admin
\* deletes and purges, no two stored rows have the same code.
C1_UniqueCodes ==
  \A r1 \in store, r2 \in store : r1.code = r2.code => r1 = r2

\* Two sends picked the same code and both passed the collision check: one
\* row is stored and the other send's insert was turned down.
C1_Witness ==
  \E s1 \in Slots, s2 \in Slots :
    /\ Sending(s1) /\ Succeeded(s1) /\ req[s1].reads = 1
    /\ Sending(s2) /\ Answered(s2) /\ req[s2].checked /\ req[s2].reads = 1
    /\ req[s2].code = req[s1].code
    /\ req[s2].resp = Err(500, "Failed to save message")
    /\ \E row \in store : row.code = req[s1].code /\ row.id = req[s1].id

\* C3: a send that found every one of its 5 candidate codes in the store
\* ends with an error response and has written no row.
C3_ExhaustedFails ==
  \A s \in Slots :
    (Sending(s) /\ Answered(s) /\ req[s].attempts = MaxAttempts) =>
      /\ req[s].resp.status >= 400
      /\ req[s].id = NoId

\* C4: a send that passed the collision check and whose insert the store
\* turns down for the duplicate code goes back to drawing a code; the
\* rejection does not end the request with an error response.
C4_RejectionRetries ==
  [][\A s \in Slots :
       (/\ req[s].pc = "insert" /\ req[s].checked
        /\ ~InsertAllowed(store, req[s].code)
        /\ SendInsert(s, "ok"))
       => ~(req'[s].pc = "done" /\ req'[s].resp.status >= 400)]_vars

\* C8: a send that succeeded made one or more collision-check reads and then
\* exactly one write; a send whose input is missing or empty in topic, author
\* or message, or whose message is longer than 10,000 characters, makes no
\* store read and no store write.
BadInput(r) ==
  r.topic = "" \/ r.author = "" \/ r.message = 0 \/ r.message > 10000

C8_SendStoreAccess ==
  \A s \in Slots :
    Sending(s) =>
      /\ Succeeded(s) => (req[s].reads >= 1 /\ req[s].writes = 1)
      /\ req[s].pc = "check" => req[s].writes = 0
      /\ BadInput(req[s]) => (req[s].reads = 0 /\ req[s].writes = 0)

\* A send that succeeded after a collision (two reads, one write) next to a
\* send turned away for its 10,001-character message.
C8_Witness ==
  \E s1 \in Slots, s2 \in Slots :
    /\ Sending(s1) /\ Succeeded(s1) /\ req[s1].reads = 2 /\ req[s1].writes = 1
    /\ Sending(s2) /\ Answered(s2) /\ req[s2].message = MaxMessageLen + 1
    /\ req[s2].resp.status = 400 /\ req[s2].reads = 0 /\ req[s2].writes = 0

Receiving(s) == req[s].kind = "receive"
Querying(s) == Receiving(s) /\ req[s].pc = "query"
ExpiredAt(row, t) == row.expires_at <= t

\* C2: a receive of code c that read the clock at nowIso answers with success
\* only if a stored row has code c and expiresAt strictly after nowIso, and it
\* answers with that row; if the row with code c has expiresAt at or before
\* nowIso the answer is the not-found one (a thrown store call apart), though
\* the row is still in the store.
C2_OnlyLive ==
  [][\A s \in Slots :
       (Querying(s) /\ req'[s].pc = "done") =>
         LET c == req[s].code
             t == req[s].nowIso
             resp == req'[s].resp
         IN
         /\ resp.status = 200 =>
              \E row \in store :
                /\ row.code = c /\ row.expires_at > t
                /\ resp.data.id = row.id /\ resp.data.expires_at = row.expires_at
         /\ (\E row \in store : row.code = c /\ ExpiredAt(row, t)) =>
              /\ resp.status # 200
              /\ resp = NotFound \/ ReceiveQuery(s, "throw")]_vars

\* A receive answered not-found while the row of its code, expiring exactly
\* at the time the receive read, is in the store.
C2_Witness ==
  \E s \in Slots :
    /\ Receiving(s) /\ Answered(s) /\ req[s].resp = NotFound
    /\ \E row \in store : row.code = req[s].code /\ row.expires_at = req[s].nowIso

\* C5: when a send has succeeded and a receive that passed the limiter asks
\* for the code the send returned, reading the clock before the message
\* expires, with the row not deleted and the store answering the query, the
\* receive succeeds with the topic, author and message given to the send.
C5_RoundTrip ==
  [][\A ss \in Slots, sr \in Slots :
       (/\ Sending(ss) /\ Succeeded(ss)
        /\ Querying(sr)
        /\ req[sr].code = req[ss].resp.data.code
        /\ req[sr].nowIso < req[ss].resp.data.expires_at
        /\ \E row \in store : row.id = req[ss].resp.data.id
        /\ ReceiveQuery(sr, "ok"))
       =>
        /\ req'[sr].resp.status = 200
        /\ req'[sr].resp.data.topic = req[ss].topic
        /\ req'[sr].resp.data.author = req[ss].author
        /\ req'[sr].resp.data.message = req[ss].message]_vars

\* The answers of a send and of a receive of its code side by side.
C5_Witness ==
  \E ss \in Slots, sr \in Slots :
    /\ Sending(ss) /\ Succeeded(ss)
    /\ Receiving(sr) /\ Succeeded(sr)
    /\ req[sr].code = req[ss].resp.data.code
    /\ req[sr].resp.data.id = req[ss].resp.data.id
    /\ req[sr].resp.data.topic = req[ss].topic
    /\ req[sr].resp.data.message = MaxMessageLen

\* C6: a receive of code c in a state holding an expired row with code c gets
\* the response it gets in the state that differs only by not holding that
\* row, and unless the store call threw that response is the 404 with the
\* payload "Invalid or expired code".
C6_Indistinguishable ==
  [][\A s \in Slots, o \in StoreOutcomes \ {"hang"} :
       (Querying(s) /\ ReceiveQuery(s, o)) =>
         \A row \in store :
           (row.code = req[s].code /\ ExpiredAt(row, req[s].nowIso)) =>
             /\ req'[s].resp =
                  ReceiveResponse(store \ {row}, req[s].code, req[s].nowIso, o)
             /\ o # "throw" => req'[s].resp = NotFound]_vars

\* Two answered receives with the same response: one of a code whose expired
\* row is in the store, one of a code that has no row.
C6_Witness ==
  \E s1 \in Slots, s2 \in Slots :
    /\ Receiving(s1) /\ Answered(s1) /\ req[s1].resp = NotFound
    /\ \E row \in store : row.code = req[s1].code /\ ExpiredAt(row, req[s1].nowIso)
    /\ Receiving(s2) /\ Answered(s2) /\ req[s2].resp = req[s1].resp
    /\ req[s2].code # NoCode
    /\ RowsWithCode(store, req[s2].code) = {}

\* C7: of the receives one address makes in one window of the limiter at most
\* 5 are passed on; a request counted 6th or later in the window is answered
\* with the rate-limit payload without a store access; a request of one
\* address leaves the count and the window of every other address as they are.
C7_RateLimit ==
  /\ [](\A ip \in Ips : admitted[ip] <= 5)
  /\ [](\A s \in Slots :
          (Receiving(s) /\ req[s].resp = RateLimited) =>
             (req[s].pc = "done" /\ req[s].reads = 0))
  /\ [][\A s \in Slots, ip \in Ips, c \in Codes \cup {NoCode} :
          ReceiveStart(s, ip, c) =>
            /\ (now < resetTime[ip] /\ hits[ip] >= 5) =>
                 (req'[s].resp = RateLimited /\ req'[s].pc = "done")
            /\ \A other \in Ips \ {ip} :
                 hits'[other] = hits[other] /\ resetTime'[other] = resetTime[other]]_vars

\* One address has had its 6th request of a window turned away while
\* another address has been let through.
C7_Witness ==
  \E ip \in Ips, other \in Ips, s \in Slots :
    /\ other # ip
    /\ hits[ip] > 5 /\ admitted[ip] = 5
    /\ req[s].resp = RateLimited /\ req[s].ip = ip
    /\ now < resetTime[other] /\ admitted[other] >= 1 /\ admitted[other] = hits[other]

\* C9: a receive leaves the store as it is; a receive of a code that an
\* earlier receive answered with success, made while the message is live,
\* the row not deleted and the store answering, gets the same answer.
C9_RepeatableRead ==
  [][/\ \A s \in Slots, o \in StoreOutcomes :
          (Querying(s) /\ ReceiveQuery(s, o)) => store' = store
     /\ \A s1 \in Slots, s2 \in Slots :
          (/\ Receiving(s1) /\ Succeeded(s1)
           /\ Querying(s2)
           /\ req[s2].code = req[s1].code
           /\ req[s2].nowIso < req[s1].resp.data.expires_at
           /\ \E row \in store : row.id = req[s1].resp.data.id
           /\ ReceiveQuery(s2, "ok"))
          => req'[s2].resp = req[s1].resp]_vars

\* Two receives of one code, both answered with the message.
C9_Witness ==
  \E s1 \in Slots, s2 \in Slots :
    /\ s1 # s2
    /\ Receiving(s1) /\ Succeeded(s1)
    /\ Receiving(s2) /\ Succeeded(s2)
    /\ req[s1].code = req[s2].code
    /\ req[s1].resp = req[s2].resp
    /\ \E row \in store : row.id = req[s1].resp.data.id

\* C10: once an authorized admin delete has been answered {ok: true} for the
\* id of a stored message, a receive of that message's code whose query the
\* store answers or fails gets the not-found answer, as long as no later send
\* has stored the code again.
Deleted(s) ==
  req[s].kind = "delete" /\ Succeeded(s) /\ req[s].code # NoCode

C10_DeletedNotFound ==
  [][\A sd \in Slots, sr \in Slots, o \in {"ok", "error"} :
       (/\ Deleted(sd)
        /\ Querying(sr)
        /\ req[sr].code = req[sd].code
        /\ ~\E row \in store : row.code = req[sd].code /\ row.id > req[sd].id
        /\ ReceiveQuery(sr, o))
       => req'[sr].resp = NotFound]_vars

\* A delete answered {ok: true} that removed a live row, and next to it a
\* receive of the row's code, made before the expiry, answered not-found.
C10_Witness ==
  \E sd \in Slots, sr \in Slots :
    /\ Deleted(sd)
    /\ Receiving(sr) /\ Answered(sr) /\ req[sr].resp = NotFound
    /\ req[sr].code = req[sd].code
    /\ req[sr].nowIso < TtlSec
    /\ RowsWithCode(store, req[sd].code) = {}

\* C11: a receive is answered not-found only when the store answered its
\* query and no live row matches the code; a failure of the store comes back
\* as an answer different from not-found.
C11_NotFoundMeansAbsent ==
  [][\A s \in Slots :
       (Querying(s) /\ req'[s].pc = "done" /\ req'[s].resp = NotFound) =>
         ~\E row \in store :
            row.code = req[s].code /\ row.expires_at > req[s].nowIso]_vars

\* C13: a send or receive that has no response yet has a step to take: a
\* store call that does not return is ended by a timeout, after which the
\* request is answered with a store error.
HandlerStep(s) ==
  \E o \in StoreOutcomes, c \in Codes :
    SendCheck(s, o, c) \/ SendInsert(s, o) \/ ReceiveQuery(s, o)

C13_NoRequestStuck ==
  \A s \in Slots :
    ((Sending(s) \/ Receiving(s)) /\ ~Answered(s)) => ENABLED HandlerStep(s)

Admin(s) == req[s].kind \in {"delete", "list"}
BadKey(s) == ADMIN_KEY = "none" \/ req[s].key # ADMIN_KEY

\* C12: an admin list or delete request whose x-admin-key header is missing
\* or differs from the configured secret, and any such request when no secret
\* is configured, is answered 401 and has made no store access; only a
\* request carrying the configured secret gets to its store call.
C12_AdminGate ==
  \A s \in Slots :
    Admin(s) =>
      /\ (req[s].pc = "done" /\ BadKey(s)) =>
           /\ req[s].resp = Err(401, "Unauthorized")
           /\ req[s].reads = 0 /\ req[s].writes = 0
      /\ req[s].pc \in {"delete", "list"} =>
           (ADMIN_KEY # "none" /\ req[s].key = ADMIN_KEY)

\* With no secret configured, a delete without the header has been answered
\* 401 and the row of its id is still stored.
C12_Witness ==
  \E s \in Slots :
    /\ ADMIN_KEY = "none"
    /\ req[s].kind = "delete" /\ Answered(s) /\ req[s].key = "none"
    /\ req[s].resp.status = 401
    /\ \E row \in store : row.id = req[s].id

\* C14: on every route a store call that throws is caught and answered with
\* an HTTP error; no exception leaves a handler and no request stays without
\* a response.
C14_ThrowsAreCaught ==
  \A s \in Slots : req[s].pc # "failed"

\* C15: for every stored message row, expires_at equals that row's created_at
\* plus exactly 7 days, created_at being the insertion time the store assigns
\* and expires_at the value the send handler computed before the insert.
C15_ExpiryFromCreation ==
  \A row \in store : row.expires_at = row.created_at + TtlSec

\* C16: messages are never updated after creation.  In every step of send,
\* receive, admin list and admin delete, a row that is stored before and
\* after the step has the same topic, author, message, code and expires_at,
\* and the store either stays as it is, gains one row or loses one row;
\* receive and list steps leave it as it is.
C16_NeverUpdated ==
  [][/\ \A row \in store, kept \in store' : kept.id = row.id => kept = row
     /\ \/ store' = store
        \/ \E row \in store' \ store : store' = store \cup {row}
        \/ \E row \in store : store' = store \ {row}
     /\ (\E s \in Slots, o \in StoreOutcomes : ReceiveQuery(s, o) \/ AdminList(s, o))
          => store' = store]_vars

\* A delete has removed one of two stored rows and the other is still there.
C16_Witness ==
  \E s \in Slots :
    /\ Deleted(s)
    /\ \E row \in store : row.id # req[s].id
    /\ ~\E row \in store : row.id = req[s].id

\* C17: with topic and author present, a send whose message has exactly
\* 10,000 characters passes validation and goes on to the store (it is never
\* answered 400), and a send whose message has 10,001 characters is answered
\* 400 "Message too long" without reaching the store.
C17_LengthBoundary ==
  \A s \in Slots :
    (Sending(s) /\ req[s].topic # Missing /\ req[s].author # Missing) =>
      /\ req[s].message = 10000 =>
           /\ req[s].pc \in {"check", "insert", "done"}
           /\ Answered(s) => (req[s].resp.status # 400 /\ req[s].reads >= 1)
      /\ req[s].message = 10001 =>
           /\ Answered(s)
           /\ req[s].resp = Err(400, "Message too long (max 10k chars)")
           /\ req[s].reads = 0 /\ req[s].writes = 0

\* A 10,000-character message has been stored and a 10,001-character one
\* turned away.
C17_Witness ==
  \E s1 \in Slots, s2 \in Slots :
    /\ Sending(s1) /\ Succeeded(s1) /\ req[s1].message = 10000
    /\ \E row \in store : row.id = req[s1].id /\ row.message = 10000
    /\ Sending(s2) /\ req[s2].message = 10001 /\ req[s2].resp.status = 400

\* C18: the code a send writes to the store is always one for which a
\* collision-check read of that same request found no stored row; a send
\* never inserts a code it did not check.
C18_InsertsCheckedCode ==
  \A s \in Slots :
    (Sending(s) /\ (req[s].pc = "insert" \/ req[s].writes >= 1)) => req[s].checked

\* C19: a send that ends with an error answer (400 from validation, 500 from
\* a failed collision check, 500 from a failed insert) leaves the stored rows
\* as they were in the step that answers it, and a row is added to the store
\* only in the step in which a send is answered 200 with that row's id.
C19_FailedSendStoresNothing ==
  [][/\ \A s \in Slots :
          (/\ req'[s].kind = "send" /\ req[s].pc # "done" /\ req'[s].pc = "done"
           /\ req'[s].resp.status # 200) => store' = store
     /\ \A row \in store' \ store :
          \E s \in Slots :
            /\ Sending(s) /\ req[s].pc = "insert" /\ req'[s].pc = "done"
            /\ req'[s].resp.status = 200 /\ req'[s].id = row.id]_vars

\* A send whose insert the store reported as failed has been answered 500 and
\* the store has never held a row.
C19_Witness ==
  \E s \in Slots :
    /\ Sending(s) /\ Answered(s) /\ req[s].writes = 1
    /\ req[s].resp = Err(500, "Failed to save message")
    /\ store = {} /\ nextId = 1

\* C20: an authorized admin delete of id i that the store carries out removes
\* at most the row whose id is i and leaves every other row as it was; when
\* no row has id i the store is unchanged; the answer is {ok: true} either
\* way, and carrying out the same delete again changes nothing further.
C20_DeleteById ==
  [][\A s \in Slots :
       AdminDelete(s, "ok") =>
         /\ store' \subseteq store
         /\ \A row \in store \ store' : row.id = req[s].id
         /\ ~\E row \in store' : row.id = req[s].id
         /\ (~\E row \in store : row.id = req[s].id) => store' = store
         /\ req'[s].resp = Json(200, [kind |-> "ok", ok |-> TRUE])
         /\ AfterDelete(store', req[s].id) = store']_vars

\* The same id has been deleted twice, the second time matching no row, both
\* answered {ok: true}, while another row is stored.
C20_Witness ==
  \E s1 \in Slots, s2 \in Slots :
    /\ Deleted(s1)
    /\ req[s2].kind = "delete" /\ Succeeded(s2) /\ req[s2].code = NoCode
    /\ req[s2].id = req[s1].id
    /\ store # {}
====
